---- MODULE Spec2Model ----
(***************************************************************************)
(* Model of the todo-app request handlers (server.js, the version with     *)
(* the identity cookie, lines 250-527) over the two tables users and       *)
(* tasks as left by the ownership migration.                               *)
(*                                                                         *)
(* Text values (usernames, cookie values, task fields) are sequences of    *)
(* one-character strings, so that JSON.stringify / JSON.parse are modelled *)
(* character by character.                                                 *)
(*                                                                         *)
(* Every handler issues exactly one SQL statement, which the database      *)
(* executes atomically; the handler's .then/.catch callback only writes    *)
(* the response of that same request.  A handler is therefore one action,  *)
(* linearised at its statement.  A client is a browser: it presents the    *)
(* cookie the server last set.  The variable `last` holds the request      *)
(* being answered and its response until the response has been sent.       *)
(***************************************************************************)
EXTENDS Integers, Sequences, FiniteSets, TLC

\* ------------------------------------------------------------------------
\* Bounds of the model
\* ------------------------------------------------------------------------

\* Highest value the tasks id sequence may hand out.
MaxTaskId == 2

\* Highest value the users id sequence may hand out.
MaxUserId == 2

\* Highest value the users id sequence may hand out while requests are in
\* flight together.
MaxUserIdInFlight == 3

\* Browsers talking to the server.
Clients == {"c1", "c2"}

\* ------------------------------------------------------------------------
\* SQL NULL / JavaScript undefined for integer columns and parameters.
\* SERIAL ids start at 1, so 0 is free to stand for "no value".
\* ------------------------------------------------------------------------
NULL == 0

\* ------------------------------------------------------------------------
\* Text
\* ------------------------------------------------------------------------
QUOTE == "\""
BSLASH == "\\"

DigitChars == <<"0", "1", "2", "3", "4", "5", "6", "7", "8", "9">>

IsDigit(ch) == \E d \in 1..10 : DigitChars[d] = ch

DigitValue(ch) == (CHOOSE d \in 1..10 : DigitChars[d] = ch) - 1

\* String(n) for a non-negative integer, as JSON.stringify writes a number.
RECURSIVE NumberToText(_)
NumberToText(n) ==
  IF n < 10 THEN <<DigitChars[n + 1]>>
  ELSE NumberToText(n \div 10) \o <<DigitChars[(n % 10) + 1]>>

\* ------------------------------------------------------------------------
\* JavaScript values, as far as the identity cookie needs them:
\*   t : "undefined" | "null" | "boolean" | "number" | "string" | "object"
\*   n : the number (or 1/0 for true/false)
\*   s : the string
\*   m : the members of an object, <<[k |-> key, v |-> primitive]>>.
\* ------------------------------------------------------------------------
JsUndefined == [n |-> 0, t |-> "undefined", s |-> <<>>, m |-> <<>>]
JsNull == [n |-> 0, t |-> "null", s |-> <<>>, m |-> <<>>]
JsBoolean(b) == [n |-> IF b THEN 1 ELSE 0, t |-> "boolean", s |-> <<>>, m |-> <<>>]
JsNumber(n) == [n |-> n, t |-> "number", s |-> <<>>, m |-> <<>>]
JsString(s) == [n |-> 0, t |-> "string", s |-> s, m |-> <<>>]
JsObject(m) == [n |-> 0, t |-> "object", s |-> <<>>, m |-> m]

\* The empty object {} of `|| {}` and of the catch branch.
EmptyIdentity == JsObject(<<>>)

\* value.key : the last member named key of an object, undefined otherwise
\* (also for the primitives, whose wrappers carry no such property).
RECURSIVE MemberFrom(_, _, _)
MemberFrom(m, key, i) ==
  IF i = 0 THEN JsUndefined
  ELSE IF m[i].k = key THEN m[i].v
  ELSE MemberFrom(m, key, i - 1)

Property(value, key) ==
  IF value.t = "object" THEN MemberFrom(value.m, key, Len(value.m))
  ELSE JsUndefined

\* JavaScript truthiness, as used by `user && JSON.parse(user) || {}`.
Truthy(value) ==
  CASE value.t = "undefined" -> FALSE
    [] value.t = "null" -> FALSE
    [] value.t = "boolean" -> value.n = 1
    [] value.t = "number" -> value.n /= 0
    [] value.t = "string" -> value.s /= <<>>
    [] OTHER -> TRUE

\* ------------------------------------------------------------------------
\* JSON.stringify
\* ------------------------------------------------------------------------
\* The escape JSON.stringify writes for one character of a string.
EscapeChar(ch) ==
  CASE ch = QUOTE -> <<BSLASH, QUOTE>>
    [] ch = BSLASH -> <<BSLASH, BSLASH>>
    [] ch = "\n" -> <<BSLASH, "n">>
    [] ch = "\r" -> <<BSLASH, "r">>
    [] ch = "\t" -> <<BSLASH, "t">>
    [] ch = "\f" -> <<BSLASH, "f">>
    [] OTHER -> <<ch>>

RECURSIVE EscapeText(_)
EscapeText(s) ==
  IF s = <<>> THEN <<>> ELSE EscapeChar(Head(s)) \o EscapeText(Tail(s))

QuoteText(s) == <<QUOTE>> \o EscapeText(s) \o <<QUOTE>>

StringifyPrimitive(value) ==
  CASE value.t = "null" -> <<"n", "u", "l", "l">>
    [] value.t = "boolean" ->
         IF value.n = 1 THEN <<"t", "r", "u", "e">> ELSE <<"f", "a", "l", "s", "e">>
    [] value.t = "number" ->
         IF value.n < 0 THEN <<"-">> \o NumberToText(-value.n)
         ELSE NumberToText(value.n)
    [] OTHER -> QuoteText(value.s)

\* Members whose value is undefined are left out, as JSON.stringify does.
RECURSIVE StringifyMembers(_, _)
StringifyMembers(m, first) ==
  IF m = <<>> THEN <<>>
  ELSE IF Head(m).v.t = "undefined" THEN StringifyMembers(Tail(m), first)
  ELSE (IF first THEN <<>> ELSE <<",">>)
       \o QuoteText(Head(m).k) \o <<":">> \o StringifyPrimitive(Head(m).v)
       \o StringifyMembers(Tail(m), FALSE)

JSONstringify(value) ==
  IF value.t = "object" THEN <<"{">> \o StringifyMembers(value.m, TRUE) \o <<"}">>
  ELSE StringifyPrimitive(value)

\* ------------------------------------------------------------------------
\* JSON.parse, for texts without white space whose objects hold primitives.
\* A parse step yields [ok, v, next]: success, the value, the index after it.
\* ok = FALSE is the SyntaxError JSON.parse throws.
\* ------------------------------------------------------------------------
ParseFail == [v |-> JsUndefined, ok |-> FALSE, next |-> 0]

ParseOk(value, next) == [v |-> value, ok |-> TRUE, next |-> next]

\* s[i..] starts with the characters of word.
StartsWith(s, i, word) ==
  /\ i + Len(word) - 1 <= Len(s)
  /\ \A j \in 1..Len(word) : s[i + j - 1] = word[j]

UnescapeChar(ch) ==
  CASE ch = "n" -> "\n"
    [] ch = "r" -> "\r"
    [] ch = "t" -> "\t"
    [] ch = "f" -> "\f"
    [] OTHER -> ch

\* The characters of a string literal up to its closing quote.
RECURSIVE ScanString(_, _, _)
ScanString(s, i, acc) ==
  IF i > Len(s) THEN ParseFail
  ELSE IF s[i] = QUOTE THEN ParseOk(JsString(acc), i + 1)
  ELSE IF s[i] = BSLASH THEN
    IF i + 1 <= Len(s) /\ s[i + 1] \in {QUOTE, BSLASH, "/", "n", "r", "t", "f"}
    THEN ScanString(s, i + 2, acc \o <<UnescapeChar(s[i + 1])>>)
    ELSE ParseFail
  ELSE IF s[i] \in {"\n", "\r", "\t", "\f"} THEN ParseFail
  ELSE ScanString(s, i + 1, Append(acc, s[i]))

ParseString(s, i) ==
  IF i <= Len(s) /\ s[i] = QUOTE THEN ScanString(s, i + 1, <<>>) ELSE ParseFail

RECURSIVE ScanDigits(_, _, _)
ScanDigits(s, i, acc) ==
  IF i <= Len(s) /\ IsDigit(s[i])
  THEN ScanDigits(s, i + 1, 10 * acc + DigitValue(s[i]))
  ELSE ParseOk(JsNumber(acc), i)

\* An integer literal: -?(0|[1-9][0-9]*).
ParseNumber(s, i) ==
  LET neg == i <= Len(s) /\ s[i] = "-"
      j == IF neg THEN i + 1 ELSE i
  IN IF ~(j <= Len(s) /\ IsDigit(s[j])) THEN ParseFail
     ELSE IF s[j] = "0" THEN ParseOk(JsNumber(0), j + 1)
     ELSE LET r == ScanDigits(s, j, 0)
          IN IF neg THEN ParseOk(JsNumber(-r.v.n), r.next) ELSE r

ParsePrimitive(s, i) ==
  IF i > Len(s) THEN ParseFail
  ELSE IF s[i] = QUOTE THEN ParseString(s, i)
  ELSE IF s[i] = "-" \/ IsDigit(s[i]) THEN ParseNumber(s, i)
  ELSE IF StartsWith(s, i, <<"n", "u", "l", "l">>) THEN ParseOk(JsNull, i + 4)
  ELSE IF StartsWith(s, i, <<"t", "r", "u", "e">>) THEN ParseOk(JsBoolean(TRUE), i + 4)
  ELSE IF StartsWith(s, i, <<"f", "a", "l", "s", "e">>) THEN ParseOk(JsBoolean(FALSE), i + 5)
  ELSE ParseFail

\* The members of an object after its opening brace, or after a comma.
RECURSIVE ParseMembers(_, _, _)
ParseMembers(s, i, acc) ==
  LET key == ParseString(s, i)
  IN IF ~key.ok THEN ParseFail
     ELSE IF ~(key.next <= Len(s) /\ s[key.next] = ":") THEN ParseFail
     ELSE LET val == ParsePrimitive(s, key.next + 1)
              members == Append(acc, [k |-> key.v.s, v |-> val.v])
          IN IF ~val.ok THEN ParseFail
             ELSE IF val.next > Len(s) THEN ParseFail
             ELSE IF s[val.next] = "}" THEN ParseOk(JsObject(members), val.next + 1)
             ELSE IF s[val.next] = "," THEN ParseMembers(s, val.next + 1, members)
             ELSE ParseFail

ParseValue(s, i) ==
  IF i <= Len(s) /\ s[i] = "{" THEN
    IF i + 1 <= Len(s) /\ s[i + 1] = "}" THEN ParseOk(EmptyIdentity, i + 2)
    ELSE ParseMembers(s, i + 1, <<>>)
  ELSE ParsePrimitive(s, i)

\* JSON.parse(text): the value, or ok = FALSE for a SyntaxError.
JSONparse(text) ==
  LET r == ParseValue(text, 1)
  IN IF r.ok /\ r.next = Len(text) + 1 THEN r ELSE ParseFail

\* ------------------------------------------------------------------------
\* Identity cookie middleware
\* ------------------------------------------------------------------------

\* A client's `user` cookie: absent, or present with a text value.
NoCookie == [value |-> <<>>, present |-> FALSE]

CookieOf(text) == [value |-> text, present |-> TRUE]

\* request.user = user && JSON.parse(user) || {}, with {} when parsing throws.
ResolveUser(cookie) ==
  IF ~cookie.present \/ cookie.value = <<>> THEN EmptyIdentity
  ELSE LET parsed == JSONparse(cookie.value)
       IN IF ~parsed.ok THEN EmptyIdentity
          ELSE IF Truthy(parsed.v) THEN parsed.v
          ELSE EmptyIdentity

ID == <<"i", "d">>
USERNAME == <<"u", "s", "e", "r", "n", "a", "m", "e">>

\* A JavaScript value bound to an INT parameter: undefined and null are sent
\* as NULL, a number as itself, a string of digits is cast by the database;
\* anything else makes the statement fail (ok = FALSE).
SqlInteger(value) ==
  CASE value.t \in {"undefined", "null"} -> [n |-> NULL, ok |-> TRUE]
    [] value.t = "number" -> [n |-> value.n, ok |-> TRUE]
    [] value.t = "string" ->
         LET r == ParseNumber(value.s, 1)
         IN IF r.ok /\ r.next = Len(value.s) + 1 THEN [n |-> r.v.n, ok |-> TRUE]
            ELSE [n |-> NULL, ok |-> FALSE]
    [] OTHER -> [n |-> NULL, ok |-> FALSE]

\* request.user.id as the handlers pass it to client.query.
UserIdParam(user) == SqlInteger(Property(user, ID))

\* a = b in SQL: never true when either side is NULL.
SqlEq(a, b) == a /= NULL /\ b /= NULL /\ a = b

\* ------------------------------------------------------------------------
\* Schema
\* ------------------------------------------------------------------------
KEITH == <<"k", "e", "i", "t", "h">>

UserRow(id, username) == [id |-> id, username |-> username]

\* The row object pg returns for `id, username`, as a JavaScript object.
UserObject(row) ==
  JsObject(<<[k |-> ID, v |-> JsNumber(row.id)],
             [k |-> USERNAME, v |-> JsString(row.username)]>>)

TaskRow(id, body, due, user_id) ==
  [id |-> id, due |-> due, user_id |-> user_id,
   title |-> body.title, description |-> body.description,
   category |-> body.category, contact |-> body.contact, status |-> body.status]

\* The five form fields of a task row.
FieldsOf(row) ==
  [title |-> row.title, description |-> row.description, category |-> row.category,
   contact |-> row.contact, status |-> row.status]

\* ------------------------------------------------------------------------
\* Request inputs
\* ------------------------------------------------------------------------
BodyA ==
  [title |-> <<"b">>, description |-> <<"d">>, category |-> <<"h">>,
   contact |-> <<"k">>, status |-> <<"o">>]

BodyB ==
  [title |-> <<"a">>, description |-> <<"e">>, category |-> <<"w">>,
   contact |-> <<"m">>, status |-> <<"x">>]

NoBody ==
  [title |-> <<>>, description |-> <<>>, category |-> <<>>,
   contact |-> <<>>, status |-> <<>>]

Bodies == {BodyA, BodyB}

\* request.body.username: a text, or missing from the form (undefined).
NoUsername == [value |-> <<>>, present |-> FALSE]

UsernameOf(text) == [value |-> text, present |-> TRUE]

UsernameInputs ==
  {UsernameOf(KEITH), UsernameOf(<<"o", QUOTE>>), NoUsername}

\* request.query.sort_by: a column name, or "" when the parameter is absent.
SortInputs == {"", "title"}

\* :task_id of the path.
TaskIdInputs == 1..MaxTaskId

Request(route, task_id, body, username, sort_by) ==
  [username |-> username, body |-> body, route |-> route,
   task_id |-> task_id, sort_by |-> sort_by]

\* ------------------------------------------------------------------------
\* Responses
\* ------------------------------------------------------------------------
NoSetCookie == [value |-> <<>>, op |-> "none"]

Location(path, id) == [id |-> id, path |-> path]

NoLocation == Location("", NULL)

\* response.render(view, {tasks | task | error})
Render(status, view, rows, error) ==
  [cookie |-> NoSetCookie, status |-> status, view |-> view,
   rows |-> rows, error |-> error, location |-> NoLocation]

\* response.redirect(location), after an optional cookie / clearCookie.
Redirect(location, cookie) ==
  [cookie |-> cookie, status |-> 302, view |-> "",
   rows |-> <<>>, error |-> "", location |-> location]

\* The request is never answered.
NoResponse == Render(0, "", <<>>, "")

handleError(err) == Render(500, "pages/error-view", <<>>, err)

\* The rejection value of a failed client.query.
DatabaseError == "DatabaseError"

\* A handler's outcome: the database after its statement, and its response.
Outcome(db, res) == [db |-> db, res |-> res]

\* ------------------------------------------------------------------------
\* SQL statements.  db = [users, tasks, nextUserId, nextTaskId].
\* ------------------------------------------------------------------------

\* Every order in which the rows of a set can be returned.
Orderings(rows) ==
  {seq \in [1..Cardinality(rows) -> rows] : {seq[i] : i \in DOMAIN seq} = rows}

\* ORDER BY $1 ASC: $1 is a bound text value, the same for every row, so the
\* clause orders nothing and the rows come back in any order.
OrderByParameter(rows, parameter) == Orderings(rows)

\* rows[0] of a result: any one row, or no row (<<>>) when there is none.
FirstRow(rows) == IF rows = {} THEN {<<>>} ELSE {<<row>> : row \in rows}

\* WHERE Id = $1 AND user_id = $2
OwnedTask(db, task_id, user_id) ==
  {t \in db.tasks : SqlEq(t.id, task_id) /\ SqlEq(t.user_id, user_id)}

\* REFERENCES users(id): NULL passes, any other value must be a users id.
ForeignKeyHolds(db, user_id) ==
  user_id = NULL \/ \E u \in db.users : u.id = user_id

\* ------------------------------------------------------------------------
\* Route handlers: the set of outcomes of one request, given the database,
\* request.user, the request and whether the statement is rejected by the
\* database connection (dbError).
\* ------------------------------------------------------------------------
Failure(db) == {Outcome(db, handleError(DatabaseError))}

getTasks(db, user, req, dbError) ==
  LET sort_by == IF req.sort_by = "" THEN "due" ELSE req.sort_by
      uid == UserIdParam(user)
      rows == {t \in db.tasks : SqlEq(t.user_id, uid.n)}
  IN IF dbError \/ ~uid.ok THEN Failure(db)
     ELSE {Outcome(db, Render(200, "index", seq, "")) :
             seq \in OrderByParameter(rows, sort_by)}

\* getOneTask with the WHERE clause of the version before the ownership
\* column: id only.
getOneTaskAnyOwner(db, user, req, dbError) ==
  LET uid == UserIdParam(user)
  IN IF dbError \/ ~uid.ok THEN Failure(db)
     ELSE {IF first = <<>> THEN Outcome(db, handleError("Task Not Found"))
           ELSE Outcome(db, Render(200, "pages/detail-view", first, "")) :
             first \in FirstRow({t \in db.tasks : SqlEq(t.id, req.task_id)})}

\* getOneTask without the rows.length test: the detail view is rendered with
\* rows[0] even when no row came back.
getOneTaskNoLengthTest(db, user, req, dbError) ==
  LET uid == UserIdParam(user)
  IN IF dbError \/ ~uid.ok THEN Failure(db)
     ELSE {Outcome(db, Render(200, "pages/detail-view", first, "")) :
             first \in FirstRow(OwnedTask(db, req.task_id, uid.n))}

getOneTask(db, user, req, dbError) ==
  LET uid == UserIdParam(user)
  IN IF dbError \/ ~uid.ok THEN Failure(db)
     ELSE {IF first = <<>> THEN Outcome(db, handleError("Task Not Found"))
           ELSE Outcome(db, Render(200, "pages/detail-view", first, "")) :
             first \in FirstRow(OwnedTask(db, req.task_id, uid.n))}

showAddTaskForm(db, user, req, dbError) ==
  {Outcome(db, Render(200, "pages/add-view", <<>>, ""))}

addTask(db, user, req, dbError) ==
  LET uid == UserIdParam(user)
      id == db.nextTaskId
      row == TaskRow(id, req.body, NULL, uid.n)
      drawn == [db EXCEPT !.nextTaskId = id + 1]
  IN IF dbError \/ ~uid.ok THEN Failure(db)
     ELSE IF ~ForeignKeyHolds(db, uid.n) THEN Failure(drawn)
     ELSE {Outcome([drawn EXCEPT !.tasks = @ \cup {row}],
                   Redirect(Location("/tasks/", id), NoSetCookie))}

\* deleteOneTask with the WHERE clause of the version before the ownership
\* column: id only.
deleteOneTaskAnyOwner(db, user, req, dbError) ==
  LET uid == UserIdParam(user)
  IN IF dbError \/ ~uid.ok THEN Failure(db)
     ELSE {Outcome([db EXCEPT !.tasks = {t \in @ : ~SqlEq(t.id, req.task_id)}],
                   Redirect(Location("/", NULL), NoSetCookie))}

\* deleteOneTask whose WHERE clause lacks Id = $1: every task of the
\* requester goes.
deleteOneTaskAllOwned(db, user, req, dbError) ==
  LET uid == UserIdParam(user)
  IN IF dbError \/ ~uid.ok THEN Failure(db)
     ELSE {Outcome([db EXCEPT !.tasks = {t \in @ : ~SqlEq(t.user_id, uid.n)}],
                   Redirect(Location("/", NULL), NoSetCookie))}

deleteOneTask(db, user, req, dbError) ==
  LET uid == UserIdParam(user)
  IN IF dbError \/ ~uid.ok THEN Failure(db)
     ELSE {Outcome([db EXCEPT !.tasks = @ \ OwnedTask(db, req.task_id, uid.n)],
                   Redirect(Location("/", NULL), NoSetCookie))}

\* No .catch: a rejected query leaves the request without a response.
editOneTask(db, user, req, dbError) ==
  LET uid == UserIdParam(user)
  IN IF dbError \/ ~uid.ok THEN {Outcome(db, NoResponse)}
     ELSE {Outcome(db, Render(200, "pages/edit-view", first, "")) :
             first \in FirstRow(OwnedTask(db, req.task_id, uid.n))}

\* updateOneTask with the WHERE clause of the version before the ownership
\* column: id only.
updateOneTaskAnyOwner(db, user, req, dbError) ==
  LET uid == UserIdParam(user)
      hit == {t \in db.tasks : SqlEq(t.id, req.task_id)}
      updated == {TaskRow(t.id, req.body, t.due, t.user_id) : t \in hit}
  IN IF dbError \/ ~uid.ok THEN Failure(db)
     ELSE {Outcome([db EXCEPT !.tasks = (@ \ hit) \cup updated],
                   Redirect(Location("/tasks/", req.task_id), NoSetCookie))}

\* updateOneTask that puts the requester's id into the row it finds by id
\* (SET ..., user_id = $7 WHERE Id = $6).
updateOneTaskTakesOwnership(db, user, req, dbError) ==
  LET uid == UserIdParam(user)
      hit == {t \in db.tasks : SqlEq(t.id, req.task_id)}
      updated == {TaskRow(t.id, req.body, t.due, uid.n) : t \in hit}
  IN IF dbError \/ ~uid.ok THEN Failure(db)
     ELSE {Outcome([db EXCEPT !.tasks = (@ \ hit) \cup updated],
                   Redirect(Location("/tasks/", req.task_id), NoSetCookie))}

updateOneTask(db, user, req, dbError) ==
  LET uid == UserIdParam(user)
      hit == OwnedTask(db, req.task_id, uid.n)
      updated == {TaskRow(t.id, req.body, t.due, t.user_id) : t \in hit}
  IN IF dbError \/ ~uid.ok THEN Failure(db)
     ELSE {Outcome([db EXCEPT !.tasks = (@ \ hit) \cup updated],
                   Redirect(Location("/tasks/", req.task_id), NoSetCookie))}

showRegister(db, user, req, dbError) ==
  {Outcome(db, Render(200, "pages/register", <<>>, ""))}

\* createUser that redirects without setting the cookie.
createUserNoCookie(db, user, req, dbError) ==
  LET id == db.nextUserId
      row == UserRow(id, req.username.value)
      drawn == [db EXCEPT !.nextUserId = id + 1]
  IN IF dbError THEN Failure(db)
     ELSE IF ~req.username.present THEN Failure(drawn)
     ELSE IF \E u \in db.users : u.username = req.username.value THEN Failure(drawn)
     ELSE {Outcome([drawn EXCEPT !.users = @ \cup {row}],
                   Redirect(Location("/", NULL), NoSetCookie))}

\* createUser on a users table whose username column is not UNIQUE.
createUserNoUnique(db, user, req, dbError) ==
  LET id == db.nextUserId
      row == UserRow(id, req.username.value)
      drawn == [db EXCEPT !.nextUserId = id + 1]
  IN IF dbError THEN Failure(db)
     ELSE IF ~req.username.present THEN Failure(drawn)
     ELSE {Outcome([drawn EXCEPT !.users = @ \cup {row}],
                   Redirect(Location("/", NULL),
                            [value |-> JSONstringify(UserObject(row)), op |-> "set"]))}

\* createUser whose INSERT replaces the row of a username that is taken
\* (ON CONFLICT (username) DO UPDATE SET id = EXCLUDED.id).
createUserReplaces(db, user, req, dbError) ==
  LET id == db.nextUserId
      row == UserRow(id, req.username.value)
      drawn == [db EXCEPT !.nextUserId = id + 1]
  IN IF dbError THEN Failure(db)
     ELSE IF ~req.username.present THEN Failure(drawn)
     ELSE {Outcome([drawn EXCEPT !.users =
                      {u \in @ : u.username /= req.username.value} \cup {row}],
                   Redirect(Location("/", NULL),
                            [value |-> JSONstringify(UserObject(row)), op |-> "set"]))}

\* The id is drawn from the sequence before NOT NULL and UNIQUE are checked,
\* so a rejected INSERT still uses it up.
createUser(db, user, req, dbError) ==
  LET id == db.nextUserId
      row == UserRow(id, req.username.value)
      drawn == [db EXCEPT !.nextUserId = id + 1]
  IN IF dbError THEN Failure(db)
     ELSE IF ~req.username.present THEN Failure(drawn)
     ELSE IF \E u \in db.users : u.username = req.username.value THEN Failure(drawn)
     ELSE {Outcome([drawn EXCEPT !.users = @ \cup {row}],
                   Redirect(Location("/", NULL),
                            [value |-> JSONstringify(UserObject(row)), op |-> "set"]))}

showLogin(db, user, req, dbError) ==
  {Outcome(db, Render(200, "pages/login", <<>>, ""))}

\* doLogin that renders the error view without .status(400).
doLoginNoStatus(db, user, req, dbError) ==
  LET rows == {u \in db.users : req.username.present /\ u.username = req.username.value}
  IN IF dbError THEN Failure(db)
     ELSE {IF first = <<>>
           THEN Outcome(db, Render(200, "pages/error-view", <<>>, "User not found!"))
           ELSE Outcome(db, Redirect(Location("/", NULL),
                  [value |-> JSONstringify(UserObject(first[1])), op |-> "set"])) :
             first \in FirstRow(rows)}

\* doLogin that drops the cookie when the user is not found.
doLoginFailureClearsCookie(db, user, req, dbError) ==
  LET rows == {u \in db.users : req.username.present /\ u.username = req.username.value}
  IN IF dbError THEN Failure(db)
     ELSE {IF first = <<>>
           THEN Outcome(db, [Render(400, "pages/error-view", <<>>, "User not found!")
                             EXCEPT !.cookie = [value |-> <<>>, op |-> "clear"]])
           ELSE Outcome(db, Redirect(Location("/", NULL),
                  [value |-> JSONstringify(UserObject(first[1])), op |-> "set"])) :
             first \in FirstRow(rows)}

\* doLogin that redirects without setting the cookie.
doLoginNoCookie(db, user, req, dbError) ==
  LET rows == {u \in db.users : req.username.present /\ u.username = req.username.value}
  IN IF dbError THEN Failure(db)
     ELSE {IF first = <<>>
           THEN Outcome(db, Render(400, "pages/error-view", <<>>, "User not found!"))
           ELSE Outcome(db, Redirect(Location("/", NULL), NoSetCookie)) :
             first \in FirstRow(rows)}

doLogin(db, user, req, dbError) ==
  LET rows == {u \in db.users : req.username.present /\ u.username = req.username.value}
  IN IF dbError THEN Failure(db)
     ELSE {IF first = <<>>
           THEN Outcome(db, Render(400, "pages/error-view", <<>>, "User not found!"))
           ELSE Outcome(db, Redirect(Location("/", NULL),
                  [value |-> JSONstringify(UserObject(first[1])), op |-> "set"])) :
             first \in FirstRow(rows)}

\* doLogout that redirects without clearCookie.
doLogoutKeepsCookie(db, user, req, dbError) ==
  {Outcome(db, Redirect(Location("/", NULL), NoSetCookie))}

doLogout(db, user, req, dbError) ==
  {Outcome(db, Redirect(Location("/", NULL), [value |-> <<>>, op |-> "clear"]))}

\* app.get('*', ...)
notFound(db, user, req, dbError) ==
  {Outcome(db, Render(404, "This route does not exist", <<>>, ""))}

\* The handler the router picks for a request.
Handler(db, user, req, dbError) ==
  CASE req.route = "GET /" -> getTasks(db, user, req, dbError)
    [] req.route = "GET /add" -> showAddTaskForm(db, user, req, dbError)
    [] req.route = "POST /add" -> addTask(db, user, req, dbError)
    [] req.route = "GET /tasks/:task_id" -> getOneTask(db, user, req, dbError)
    [] req.route = "DELETE /tasks/:task_id" -> deleteOneTask(db, user, req, dbError)
    [] req.route = "PUT /tasks/:task_id" -> updateOneTask(db, user, req, dbError)
    [] req.route = "GET /tasks/:task_id/edit" -> editOneTask(db, user, req, dbError)
    [] req.route = "GET /register" -> showRegister(db, user, req, dbError)
    [] req.route = "POST /register" -> createUser(db, user, req, dbError)
    [] req.route = "GET /login" -> showLogin(db, user, req, dbError)
    [] req.route = "POST /login" -> doLogin(db, user, req, dbError)
    [] req.route = "POST /logout" -> doLogout(db, user, req, dbError)
    [] OTHER -> notFound(db, user, req, dbError)

\* ------------------------------------------------------------------------
\* State
\* ------------------------------------------------------------------------
VARIABLES
  users,        \* rows of table users
  tasks,        \* rows of table tasks
  nextUserId,   \* next value of the users id sequence
  nextTaskId,   \* next value of the tasks id sequence
  cookies,      \* per client: its `user` cookie
  last,         \* the request served last and its response
  creator,      \* history: per task id, the id of the identity that created it
  loggedOut,    \* history: per client, whether it was identified, logged out
                \* and has not logged in or registered since
  pending       \* per client: its request whose statement has run and whose
                \* .then/.catch callback has not yet answered

vars == <<users, tasks, nextUserId, nextTaskId, cookies, last, creator, loggedOut, pending>>

Db == [tasks |-> tasks, users |-> users, nextTaskId |-> nextTaskId, nextUserId |-> nextUserId]

\* A task that existed before the migration; the migration gave it to user 1.
LegacyTask == TaskRow(1, BodyA, 1, 1)

NoRequest == Request("", NULL, NoBody, NoUsername, "")

\* No request is being answered.
NoLast == [res |-> NoResponse, req |-> NoRequest, uid |-> NULL, client |-> ""]

\* The database after the migration script: user keith with id 1 and every
\* task that existed owned by user 1.  No client holds a cookie.
Init ==
  /\ users = {UserRow(1, KEITH)}
  /\ nextUserId = 2
  /\ tasks = {LegacyTask}
  /\ nextTaskId = 2
  /\ cookies = [c \in Clients |-> NoCookie]
  /\ last = NoLast
  /\ creator = [id \in 1..MaxTaskId |-> IF id < nextTaskId THEN 1 ELSE NULL]
  /\ loggedOut = [c \in Clients |-> FALSE]
  /\ pending = [c \in Clients |-> NoLast]

\* The browser's cookie after a response.
ApplySetCookie(cookie, set) ==
  CASE set.op = "set" -> CookieOf(set.value)
    [] set.op = "clear" -> NoCookie
    [] OTHER -> cookie

\* request.user.id as an integer, NULL when there is none.
Uid(user) == IF UserIdParam(user).ok THEN UserIdParam(user).n ELSE NULL

\* The identity cookie middleware without its try/catch: a SyntaxError of
\* JSON.parse leaves the middleware before request.user is set and before
\* next() is called.
IdentityMiddlewareNoCatch(cookie) ==
  IF cookie.present /\ cookie.value /= <<>> /\ ~JSONparse(cookie.value).ok
  THEN [next |-> 0, user |-> JsUndefined, locals |-> JsUndefined]
  ELSE [next |-> 1, user |-> ResolveUser(cookie), locals |-> ResolveUser(cookie)]

\* The identity cookie middleware on one request: the number of times
\* it calls next(), request.user and response.locals.user.
IdentityMiddleware(cookie) ==
  [next |-> 1, user |-> ResolveUser(cookie), locals |-> ResolveUser(cookie)]

\* What the route handler, or the error handler middleware when the chain
\* was left by an exception before the handler, does with the request.
Routed(mw, db, req, dbError) ==
  IF mw.next = 1 THEN Handler(db, mw.user, req, dbError)
  ELSE {Outcome(db, handleError("SyntaxError"))}

\* Client c sends req with its cookie; the middleware resolves request.user,
\* the routed handler runs its statement and answers; c stores the cookie.
Serve(c, req, dbError) ==
  /\ last.client = ""
  /\ \E mw \in {IdentityMiddleware(cookies[c])} :
       \E uid \in {Uid(mw.user)} :
         \E o \in Routed(mw, Db, req, dbError) :
           /\ users' = o.db.users
           /\ tasks' = o.db.tasks
           /\ nextUserId' = o.db.nextUserId
           /\ nextTaskId' = o.db.nextTaskId
           /\ cookies' = [cookies EXCEPT ![c] = ApplySetCookie(@, o.res.cookie)]
           /\ last' = [res |-> o.res, req |-> req, uid |-> uid, client |-> c]
           /\ creator' = [id \in DOMAIN creator |->
                            IF \E t \in o.db.tasks \ tasks : t.id = id
                            THEN uid ELSE creator[id]]
           /\ loggedOut' = [loggedOut EXCEPT ![c] =
                              CASE o.res.cookie.op = "set" -> FALSE
                                [] req.route = "POST /logout" /\ uid /= NULL -> TRUE
                                [] OTHER -> @]
           /\ UNCHANGED pending

\* ------------------------------------------------------------------------
\* One action per route
\* ------------------------------------------------------------------------
\* A statement the database connection rejects has the same outcome whatever
\* its parameters are, so a rejected request is drawn with one representative
\* input instead of every input.
Inputs(all, representative, dbError) == IF dbError THEN {representative} ELSE all

GetTasks(c) ==
  \E dbError \in BOOLEAN :
    \E sort_by \in Inputs(SortInputs, "", dbError) :
      Serve(c, Request("GET /", NULL, NoBody, NoUsername, sort_by), dbError)

ShowAddTaskForm(c) ==
  Serve(c, Request("GET /add", NULL, NoBody, NoUsername, ""), FALSE)

AddTask(c) ==
  /\ nextTaskId <= MaxTaskId
  /\ \E dbError \in BOOLEAN :
       \E body \in Inputs(Bodies, BodyA, dbError) :
         Serve(c, Request("POST /add", NULL, body, NoUsername, ""), dbError)

GetOneTask(c) ==
  \E dbError \in BOOLEAN :
    \E task_id \in Inputs(TaskIdInputs, 1, dbError) :
      Serve(c, Request("GET /tasks/:task_id", task_id, NoBody, NoUsername, ""), dbError)

DeleteOneTask(c) ==
  \E dbError \in BOOLEAN :
    \E task_id \in Inputs(TaskIdInputs, 1, dbError) :
      Serve(c, Request("DELETE /tasks/:task_id", task_id, NoBody, NoUsername, ""), dbError)

UpdateOneTask(c) ==
  \E dbError \in BOOLEAN :
    \E task_id \in Inputs(TaskIdInputs, 1, dbError), body \in Inputs(Bodies, BodyA, dbError) :
      Serve(c, Request("PUT /tasks/:task_id", task_id, body, NoUsername, ""), dbError)

EditOneTask(c) ==
  \E dbError \in BOOLEAN :
    \E task_id \in Inputs(TaskIdInputs, 1, dbError) :
      Serve(c, Request("GET /tasks/:task_id/edit", task_id, NoBody, NoUsername, ""), dbError)

ShowRegister(c) ==
  Serve(c, Request("GET /register", NULL, NoBody, NoUsername, ""), FALSE)

CreateUser(c) ==
  /\ nextUserId <= MaxUserId
  /\ \E dbError \in BOOLEAN :
       \E username \in Inputs(UsernameInputs, UsernameOf(KEITH), dbError) :
         Serve(c, Request("POST /register", NULL, NoBody, username, ""), dbError)

ShowLogin(c) ==
  Serve(c, Request("GET /login", NULL, NoBody, NoUsername, ""), FALSE)

DoLogin(c) ==
  \E dbError \in BOOLEAN :
    \E username \in Inputs(UsernameInputs, UsernameOf(KEITH), dbError) :
      Serve(c, Request("POST /login", NULL, NoBody, username, ""), dbError)

DoLogout(c) ==
  Serve(c, Request("POST /logout", NULL, NoBody, NoUsername, ""), FALSE)

NotFound(c) ==
  Serve(c, Request("GET *", NULL, NoBody, NoUsername, ""), FALSE)

\* The response has gone out (or, for NoResponse, the request stays open for
\* good); the server turns to the next statement.
ResponseSent ==
  /\ last.client /= ""
  /\ last' = NoLast
  /\ UNCHANGED <<users, tasks, nextUserId, nextTaskId, cookies, creator, loggedOut, pending>>

Next ==
  \/ ResponseSent
  \/ \E c \in Clients :
    \/ GetTasks(c)
    \/ ShowAddTaskForm(c)
    \/ AddTask(c)
    \/ GetOneTask(c)
    \/ DeleteOneTask(c)
    \/ UpdateOneTask(c)
    \/ EditOneTask(c)
    \/ ShowRegister(c)
    \/ CreateUser(c)
    \/ ShowLogin(c)
    \/ DoLogin(c)
    \/ DoLogout(c)
    \/ NotFound(c)

Spec == Init /\ [][Next]_vars

\* ------------------------------------------------------------------------
\* Clients that present a cookie of their own making
\* ------------------------------------------------------------------------

\* Values of the `user` cookie a client can send: none, the empty text, text
\* that is no JSON, JSON null, a JSON number, an object whose id is no
\* number, and the object of an existing user.
CookieInputs ==
  {NoCookie,
   CookieOf(<<>>),
   CookieOf(<<"{">>),
   CookieOf(<<"n", "u", "l", "l">>),
   CookieOf(<<"7">>),
   CookieOf(JSONstringify(JsObject(<<[k |-> ID, v |-> JsString(<<"x">>)]>>))),
   CookieOf(JSONstringify(UserObject(UserRow(1, KEITH))))}

\* The migrated database; every client starts with some cookie in its jar.
CookieInit ==
  /\ users = {UserRow(1, KEITH)}
  /\ nextUserId = 2
  /\ tasks = {LegacyTask}
  /\ nextTaskId = 2
  /\ cookies \in [Clients -> CookieInputs]
  /\ last = NoLast
  /\ creator = [id \in 1..MaxTaskId |-> IF id < nextTaskId THEN 1 ELSE NULL]
  /\ loggedOut = [c \in Clients |-> FALSE]
  /\ pending = [c \in Clients |-> NoLast]

CookieSpec == CookieInit /\ [][Next]_vars

\* ------------------------------------------------------------------------
\* Requests in flight together
\* ------------------------------------------------------------------------
\* The handlers do not wait for one another: while the answer to one request
\* is outstanding the next request is taken up.  The one database connection
\* runs the statements one at a time, in the order the requests came in.

\* Client c's request comes in: the middleware resolves request.user, the
\* handler hands its statement to the connection and the database runs it.
\* The callback that answers has not run yet.
Arrive(c, req, dbError) ==
  /\ pending[c].client = ""
  /\ \E mw \in {IdentityMiddleware(cookies[c])} :
       \E uid \in {Uid(mw.user)} :
         \E o \in Routed(mw, Db, req, dbError) :
           /\ users' = o.db.users
           /\ tasks' = o.db.tasks
           /\ nextUserId' = o.db.nextUserId
           /\ nextTaskId' = o.db.nextTaskId
           /\ pending' = [pending EXCEPT ![c] =
                            [res |-> o.res, req |-> req, uid |-> uid, client |-> c]]
           /\ creator' = [id \in DOMAIN creator |->
                            IF \E t \in o.db.tasks \ tasks : t.id = id
                            THEN uid ELSE creator[id]]
           /\ UNCHANGED <<cookies, last, loggedOut>>

\* The .then / .catch callback of c's request answers it and c stores the
\* cookie of the answer.  A request that is never answered stays as it is.
Answer(c) ==
  /\ pending[c].client /= ""
  /\ pending[c].res.status /= 0
  /\ cookies' = [cookies EXCEPT ![c] = ApplySetCookie(@, pending[c].res.cookie)]
  /\ loggedOut' = [loggedOut EXCEPT ![c] =
                     CASE pending[c].res.cookie.op = "set" -> FALSE
                       [] pending[c].req.route = "POST /logout" /\ pending[c].uid /= NULL -> TRUE
                       [] OTHER -> @]
  /\ pending' = [pending EXCEPT ![c] = NoLast]
  /\ UNCHANGED <<users, tasks, nextUserId, nextTaskId, last, creator>>

AddTaskArrives(c) ==
  /\ nextTaskId <= MaxTaskId
  /\ \E dbError \in BOOLEAN :
       \E body \in Inputs(Bodies, BodyA, dbError) :
         Arrive(c, Request("POST /add", NULL, body, NoUsername, ""), dbError)

DeleteOneTaskArrives(c) ==
  \E dbError \in BOOLEAN :
    \E task_id \in Inputs(TaskIdInputs, 1, dbError) :
      Arrive(c, Request("DELETE /tasks/:task_id", task_id, NoBody, NoUsername, ""), dbError)

UpdateOneTaskArrives(c) ==
  \E dbError \in BOOLEAN :
    \E task_id \in Inputs(TaskIdInputs, 1, dbError), body \in Inputs(Bodies, BodyA, dbError) :
      Arrive(c, Request("PUT /tasks/:task_id", task_id, body, NoUsername, ""), dbError)

CreateUserArrives(c) ==
  /\ nextUserId <= MaxUserIdInFlight
  /\ \E dbError \in BOOLEAN :
       \E username \in Inputs(UsernameInputs, UsernameOf(KEITH), dbError) :
         Arrive(c, Request("POST /register", NULL, NoBody, username, ""), dbError)

DoLoginArrives(c) ==
  \E dbError \in BOOLEAN :
    \E username \in Inputs(UsernameInputs, UsernameOf(KEITH), dbError) :
      Arrive(c, Request("POST /login", NULL, NoBody, username, ""), dbError)

DoLogoutArrives(c) ==
  Arrive(c, Request("POST /logout", NULL, NoBody, NoUsername, ""), FALSE)

\* The requests that write to table users or to the cookie, from clients
\* that do not wait for each other.
RegistrationNext ==
  \E c \in Clients :
    \/ CreateUserArrives(c)
    \/ DoLoginArrives(c)
    \/ DoLogoutArrives(c)
    \/ Answer(c)

RegistrationSpec == Init /\ [][RegistrationNext]_vars

\* The requests that write to table tasks or to the cookie, from clients
\* that do not wait for each other.  The requests that only read leave both
\* as they are.
TasksNext ==
  \E c \in Clients :
    \/ AddTaskArrives(c)
    \/ DeleteOneTaskArrives(c)
    \/ UpdateOneTaskArrives(c)
    \/ DoLoginArrives(c)
    \/ DoLogoutArrives(c)
    \/ Answer(c)

TasksSpec == Init /\ [][TasksNext]_vars

\* ------------------------------------------------------------------------
\* Properties
\* ------------------------------------------------------------------------

\* The identity client c's next request would carry.
IdentityOf(c) == ResolveUser(cookies[c])

ReadRoutes == {"GET /", "GET /tasks/:task_id", "GET /tasks/:task_id/edit"}

\* The rows a response hands to its view.
ReturnedRows == {last.res.rows[i] : i \in DOMAIN last.res.rows}

\* t is not owned by the identity with id uid (anonymous: uid = NULL).
NotOwner(t, uid) == ~SqlEq(t.user_id, uid)

\* C1: a task is returned by the listing, the detail view or the edit form
\* only to the identity that created it: every row of such a response was
\* created by the requesting identity, which is not the anonymous one.
C1_OwnershipIsolationOnReads ==
  last.req.route \in ReadRoutes =>
    \A row \in ReturnedRows :
      /\ last.uid /= NULL
      /\ creator[row.id] = last.uid

\* An identified client asked for the detail view of an existing task that
\* another identity created, and was refused.
C1_Witness ==
  /\ last.req.route = "GET /tasks/:task_id"
  /\ last.uid /= NULL
  /\ \E t \in tasks : t.id = last.req.task_id /\ creator[t.id] /= last.uid
  /\ last.res.error = "Task Not Found"

\* C2: a PUT or DELETE addressed to a task by an identity that does not own
\* it (anonymous included) leaves table tasks exactly as it was.
C2_NonOwnerWriteIsNoOp ==
  [][(/\ last'.req.route \in {"PUT /tasks/:task_id", "DELETE /tasks/:task_id"}
      /\ \E t \in tasks : t.id = last'.req.task_id /\ NotOwner(t, last'.uid))
     => tasks' = tasks]_vars

\* A DELETE by an identified non-owner was answered with the redirect and
\* the task is still there.
C2_Witness ==
  /\ last.req.route = "DELETE /tasks/:task_id"
  /\ last.res.status = 302
  /\ last.uid /= NULL
  /\ \E t \in tasks : t.id = last.req.task_id /\ NotOwner(t, last.uid)

\* C3: right after a POST /add was answered with its redirect, the detail
\* request of the same client for the returned identifier yields the detail
\* view of a record with the five submitted fields, an id and an owner id.
C3_AddThenGetRoundTrip ==
  (last.req.route = "POST /add" /\ last.res.status = 302) =>
    \A o \in getOneTask(Db, IdentityOf(last.client),
                        Request("GET /tasks/:task_id", last.res.location.id,
                                NoBody, NoUsername, ""), FALSE) :
      /\ o.res.view = "pages/detail-view"
      /\ Len(o.res.rows) = 1
      /\ FieldsOf(o.res.rows[1]) = last.req.body
      /\ o.res.rows[1].id /= NULL
      /\ o.res.rows[1].user_id /= NULL

\* C4: every row of tasks has a non-null user_id that is the id of a row of
\* users.
C4_EveryTaskHasOwner ==
  \A t \in tasks : t.user_id /= NULL /\ \E u \in users : u.id = t.user_id

\* C5: after a successful registration the cookie the client holds is the one
\* the response set, and the middleware resolves it to the id of the row just
\* inserted and to the registered username.
C5_RegistrationCookieRoundTrip ==
  (last.req.route = "POST /register" /\ last.res.status = 302) =>
    /\ last.res.cookie.op = "set"
    /\ cookies[last.client] = CookieOf(last.res.cookie.value)
    /\ \E u \in users :
         /\ u.id = nextUserId - 1
         /\ u.username = last.req.username.value
         /\ Property(IdentityOf(last.client), ID) = JsNumber(u.id)
         /\ Property(IdentityOf(last.client), USERNAME) = JsString(u.username)

\* A username with a character JSON has to escape was registered.
C5_Witness ==
  /\ last.req.route = "POST /register"
  /\ last.res.status = 302
  /\ \E i \in DOMAIN last.req.username.value : last.req.username.value[i] = QUOTE

\* The statement of the request being answered was not rejected.
QueryRan == last.res.error /= DatabaseError /\ last.res.status /= 0

\* C6: a login whose username matches no users row is answered with status
\* 400 and the error view, sets no cookie, and leaves the client with the
\* identity it had.
C6_UnknownLoginRejected ==
  (/\ last.req.route = "POST /login"
   /\ QueryRan
   /\ ~\E u \in users : last.req.username.present /\ u.username = last.req.username.value)
  => /\ last.res.status = 400
     /\ last.res.view = "pages/error-view"
     /\ last.res.cookie.op = "none"
     /\ Uid(IdentityOf(last.client)) = last.uid

\* An identified client failed a login and is still identified.
C6_Witness ==
  /\ last.req.route = "POST /login"
  /\ last.res.status = 400
  /\ last.uid /= NULL
  /\ cookies[last.client].present

\* The requests whose statement is scoped by the owner.
OwnerScopedRequests ==
  {Request("GET /", NULL, NoBody, NoUsername, sort_by) : sort_by \in SortInputs}
  \cup {Request("POST /add", NULL, body, NoUsername, "") : body \in Bodies}
  \cup {Request(route, task_id, NoBody, NoUsername, "") :
          route \in {"GET /tasks/:task_id", "GET /tasks/:task_id/edit",
                     "DELETE /tasks/:task_id"},
          task_id \in TaskIdInputs}
  \cup {Request("PUT /tasks/:task_id", task_id, body, NoUsername, "") :
          task_id \in TaskIdInputs, body \in Bodies}

\* C7: while a client that logged out of a user has not logged in or
\* registered again, each owner-scoped request it can make (the server being
\* ready for a request, last.client = "") has the outcomes
\* (response and database effect) the same request has without any cookie,
\* returns no task that has an owner and leaves every owned task as it is.
C7_LoggedOutActsAnonymous ==
  \A c \in Clients :
    (loggedOut[c] /\ last.client = "") =>
      \A req \in OwnerScopedRequests, dbError \in BOOLEAN :
        LET outcomes == Handler(Db, IdentityOf(c), req, dbError)
        IN /\ outcomes = Handler(Db, ResolveUser(NoCookie), req, dbError)
           /\ \A o \in outcomes :
                /\ \A i \in DOMAIN o.res.rows : o.res.rows[i].user_id = NULL
                /\ \A t \in tasks : t.user_id /= NULL => t \in o.db.tasks

\* A client that logged out asked for the listing while owned tasks exist
\* and got the empty list.
C7_Witness ==
  /\ last.client \in Clients
  /\ loggedOut[last.client]
  /\ last.req.route = "GET /"
  /\ last.res.status = 200
  /\ last.res.rows = <<>>
  /\ \E t \in tasks : t.user_id /= NULL

\* Client c's cookie resolves to a row of users.
Identified(c) ==
  \E identity \in {IdentityOf(c)} : \E u \in users : identity = UserObject(u)

\* C8: a client is always anonymous (no cookie) or identified as a users row
\* (its cookie resolves to that row), and its
\* cookie changes only in the step that answers its own successful login or
\* registration (to an identified cookie) or its own logout (to no cookie).
C8_IdentityTransitions ==
  /\ [](\A c \in Clients : ~cookies[c].present \/ Identified(c))
  /\ [][\A c \in Clients :
          cookies'[c] /= cookies[c] =>
            /\ last'.client = c
            /\ \/ /\ last'.req.route \in {"POST /login", "POST /register"}
                  /\ last'.res.status = 302
                  /\ \E u \in users' : ResolveUser(cookies'[c]) = UserObject(u)
               \/ /\ last'.req.route = "POST /logout"
                  /\ ~cookies'[c].present]_vars

\* An identified client's update was answered while the other client, which
\* logged out earlier, holds no cookie.
C8_Witness ==
  /\ last.req.route = "PUT /tasks/:task_id"
  /\ last.uid /= NULL
  /\ cookies[last.client].present
  /\ \E c \in Clients : loggedOut[c] /\ ~cookies[c].present

\* C9: a login whose username matches a users row is answered with a
\* redirect to / that sets the cookie to that row's {id, username}; the
\* client's requests then carry that row's id as their identity.
C9_KnownLoginSetsIdentity ==
  \A u \in users :
    (/\ last.req.route = "POST /login"
     /\ QueryRan
     /\ last.req.username.present
     /\ u.username = last.req.username.value)
    => /\ last.res.status = 302
       /\ last.res.location = Location("/", NULL)
       /\ last.res.cookie = [value |-> JSONstringify(UserObject(u)), op |-> "set"]
       /\ IdentityOf(last.client) = UserObject(u)
       /\ Uid(IdentityOf(last.client)) = u.id

\* A client identified as one user logged in as another.
C9_Witness ==
  /\ last.req.route = "POST /login"
  /\ last.res.status = 302
  /\ last.uid /= NULL
  /\ Uid(IdentityOf(last.client)) /= last.uid

\* Order of the characters the task fields are made of.
Letters ==
  <<"a", "b", "c", "d", "e", "f", "g", "h", "i", "j", "k", "l", "m",
    "n", "o", "p", "q", "r", "s", "t", "u", "v", "w", "x", "y", "z">>

LetterRank(ch) == CHOOSE i \in DOMAIN Letters : Letters[i] = ch

\* a <= b for texts, character by character.
RECURSIVE TextLeq(_, _)
TextLeq(a, b) ==
  IF a = <<>> THEN TRUE
  ELSE IF b = <<>> THEN FALSE
  ELSE IF Head(a) = Head(b) THEN TextLeq(Tail(a), Tail(b))
  ELSE LetterRank(Head(a)) < LetterRank(Head(b))

\* a <= b in an ascending integer column, where NULLs sort last.
NullsLastLeq(a, b) == b = NULL \/ (a /= NULL /\ a <= b)

\* Row a may stand before row b in a listing ascending by the column.
ColumnLeq(column, a, b) ==
  CASE column = "title" -> TextLeq(a.title, b.title)
    [] column = "id" -> a.id <= b.id
    [] OTHER -> NullsLastLeq(a.due, b.due)

\* C10: the listing returns exactly the tasks whose user_id is the
\* requester's id, ascending by the sort_by column (due when absent).
C10_ListingSortedByColumn ==
  (last.req.route = "GET /" /\ last.res.status = 200) =>
    LET column == IF last.req.sort_by = "" THEN "due" ELSE last.req.sort_by
        rows == last.res.rows
    IN /\ ReturnedRows = {t \in tasks : SqlEq(t.user_id, last.uid)}
       /\ Len(rows) = Cardinality(ReturnedRows)
       /\ \A i \in 1..(Len(rows) - 1) : ColumnLeq(column, rows[i], rows[i + 1])

\* ------------------------------------------------------------------------
\* Query errors
\* ------------------------------------------------------------------------

\* The routes whose handler issues a statement.
QueryRoutes ==
  {"GET /", "GET /tasks/:task_id", "GET /tasks/:task_id/edit", "POST /add",
   "PUT /tasks/:task_id", "DELETE /tasks/:task_id", "POST /register", "POST /login"}

\* C11: a request to a querying route whose statement was rejected is
\* answered, and with status 500 and the generic error view; no such request
\* is left without a response.
C11_QueryFailureAnswered ==
  (last.client /= "" /\ last.req.route \in QueryRoutes /\ ~QueryRan)
  => /\ last.res.status = 500
     /\ last.res.view = "pages/error-view"

\* ------------------------------------------------------------------------
\* Identity resolution
\* ------------------------------------------------------------------------

\* The cookie is absent, empty or no JSON text.
AbsentOrMalformed(cookie) ==
  ~cookie.present \/ cookie.value = <<>> \/ ~JSONparse(cookie.value).ok

\* C12: whatever cookie a client holds, the middleware calls next() exactly
\* once and hands the same identity to the handler and to the views; for an
\* absent or malformed cookie that identity is the empty object, without an
\* id; and no request is answered by the error handler on behalf of the
\* middleware.
C12_IdentityResolutionNeverFails ==
  /\ \A c \in Clients :
       \E mw \in {IdentityMiddleware(cookies[c])} :
         /\ mw.next = 1
         /\ mw.locals = mw.user
         /\ AbsentOrMalformed(cookies[c]) =>
              /\ mw.user.t = "object"
              /\ mw.user.m = <<>>
              /\ Uid(mw.user) = NULL
  /\ last.res.error /= "SyntaxError"

\* A client whose cookie is no JSON text asked for the listing and got it.
C12_Witness ==
  /\ last.client /= ""
  /\ last.req.route = "GET /"
  /\ last.res.status = 200
  /\ cookies[last.client].present
  /\ cookies[last.client].value /= <<>>
  /\ ~JSONparse(cookies[last.client].value).ok

\* ------------------------------------------------------------------------
\* Single task retrieval
\* ------------------------------------------------------------------------

\* C13: GET /tasks/:id, its statement not rejected, renders the detail view
\* with exactly the task of that id when that task exists and its user_id is
\* the requester's id; otherwise it renders the error view with
\* 'Task Not Found' (status 500) and hands no task row to the view.
C13_DetailOrNotFound ==
  (last.req.route = "GET /tasks/:task_id" /\ QueryRan) =>
    IF \E t \in tasks : t.id = last.req.task_id /\ SqlEq(t.user_id, last.uid)
    THEN /\ last.res.status = 200
         /\ last.res.view = "pages/detail-view"
         /\ \E t \in tasks :
              /\ t.id = last.req.task_id
              /\ SqlEq(t.user_id, last.uid)
              /\ last.res.rows = <<t>>
    ELSE /\ last.res.status = 500
         /\ last.res.view = "pages/error-view"
         /\ last.res.error = "Task Not Found"
         /\ last.res.rows = <<>>

\* An identity was shown a task it had added itself.
C13_Witness ==
  /\ last.req.route = "GET /tasks/:task_id"
  /\ last.res.view = "pages/detail-view"
  /\ last.res.rows /= <<>>
  /\ last.res.rows[1].id = last.req.task_id
  /\ last.res.rows[1].due = NULL
  /\ last.res.rows[1].user_id = last.uid

\* ------------------------------------------------------------------------
\* Task update
\* ------------------------------------------------------------------------

\* The rows of table tasks with the id of the request being answered that
\* the requester owns, before the request.
Matched == {t \in tasks : t.id = last'.req.task_id /\ SqlEq(t.user_id, last'.uid)}

\* C14: a PUT /tasks/:id whose statement is not rejected gives the rows
\* with that id that the requester owns the five submitted fields, keeping
\* their id, due and user_id, and leaves every other row as it was (all
\* rows, when none matches); the answer is a redirect to /tasks/:id
\* without an error.
C14_UpdateSetsFiveFields ==
  [][(last'.req.route = "PUT /tasks/:task_id" /\ last'.res.error /= DatabaseError) =>
       /\ Cardinality(Matched) <= 1
       /\ Cardinality(tasks') = Cardinality(tasks)
       /\ \A t \in tasks \ Matched : t \in tasks'
       /\ \A t \in Matched :
            \E n \in tasks' :
              /\ n.id = t.id
              /\ n.due = t.due
              /\ n.user_id = t.user_id
              /\ FieldsOf(n) = last'.req.body
       /\ last'.res.status = 302
       /\ last'.res.location.path = "/tasks/"
       /\ last'.res.location.id = last'.req.task_id
       /\ last'.res.error = ""
    ]_vars

\* An owner's PUT has replaced the fields of the task it had as BodyA by
\* BodyB, next to another task that still has the fields it was added with.
C14_Witness ==
  /\ last.req.route = "PUT /tasks/:task_id"
  /\ last.res.status = 302
  /\ last.req.task_id = 1
  /\ last.uid = 1
  /\ \E t \in tasks : t.id = 1 /\ FieldsOf(t) = BodyB
  /\ \E t \in tasks : t.id /= 1 /\ FieldsOf(t) = BodyA

\* ------------------------------------------------------------------------
\* Task deletion
\* ------------------------------------------------------------------------

\* C15: a DELETE /tasks/:id whose statement is not rejected removes the
\* rows with that id that the requester owns and no other row, and is
\* answered by a redirect to / whether or not a row went.  A removed task
\* stays away: ids are never handed out twice, and the listing, the detail
\* view and the edit form return rows of table tasks only.
C15_DeleteRemovesOwnedTaskOnly ==
  /\ [](\A t \in tasks : t.id < nextTaskId)
  /\ [](last.req.route \in ReadRoutes => \A row \in ReturnedRows : row \in tasks)
  /\ [][/\ \A n \in tasks' :
             (\E t \in tasks : t.id = n.id) \/ (n.id >= nextTaskId /\ n.id < nextTaskId')
        /\ (last'.req.route = "DELETE /tasks/:task_id" /\ last'.res.error /= DatabaseError) =>
             /\ tasks' = tasks \ Matched
             /\ last'.res.status = 302
             /\ last'.res.location.path = "/"
             /\ last'.res.location.id = NULL
             /\ last'.res.error = ""
       ]_vars

\* An identity has deleted a task it had created, next to a task of another
\* identity that is still there.
C15_Witness ==
  /\ last.req.route = "DELETE /tasks/:task_id"
  /\ last.res.status = 302
  /\ last.uid /= NULL
  /\ last.req.task_id < nextTaskId
  /\ creator[last.req.task_id] = last.uid
  /\ ~\E t \in tasks : t.id = last.req.task_id
  /\ \E t \in tasks : t.user_id /= last.uid

\* ------------------------------------------------------------------------
\* Registration
\* ------------------------------------------------------------------------

\* C16: ids and usernames are unique in table users; a POST /register that
\* comes in with a username the table already holds, whether or not the
\* request that put it there has been answered, adds no row and gets the
\* error view with status 500 and no cookie; the client that is answered so
\* keeps the cookie it has.
C16_DuplicateUsernameRejected ==
  /\ [](\A u1, u2 \in users :
          (u1.id = u2.id \/ u1.username = u2.username) => u1 = u2)
  /\ [][\A c \in Clients :
          /\ (/\ pending[c].client = ""
              /\ pending'[c].req.route = "POST /register"
              /\ pending'[c].req.username.present
              /\ \E u \in users : u.username = pending'[c].req.username.value)
             => /\ users' = users
                /\ pending'[c].res.status = 500
                /\ pending'[c].res.view = "pages/error-view"
                /\ pending'[c].res.cookie.op = "none"
          /\ (pending[c].res.status = 500 /\ pending'[c].client = "")
             => cookies'[c] = cookies[c]
       ]_vars

\* Two registrations of one new username are in flight together: one was
\* accepted, the other rejected, and the table holds the username once.
C16_Witness ==
  /\ pending["c1"].req.route = "POST /register"
  /\ pending["c2"].req.route = "POST /register"
  /\ pending["c1"].req.username.present
  /\ pending["c1"].req.username.value = pending["c2"].req.username.value
  /\ pending["c1"].req.username.value /= KEITH
  /\ {pending["c1"].res.status, pending["c2"].res.status} = {302, 500}
  /\ Cardinality({u \in users : u.username = pending["c1"].req.username.value}) = 1

\* ------------------------------------------------------------------------
\* Table users
\* ------------------------------------------------------------------------

\* C17: no step removes or changes a row of table users; a step that adds
\* to it answers a POST /register with the redirect and adds one row, with
\* the username of the request; and, whenever the server is ready for a
\* request, the object in a client's cookie has the id and the username of
\* a row the table holds.
C17_UsersOnlyGrow ==
  /\ [](\A c \in Clients :
          (last.client = "" /\ cookies[c].present) =>
            \E u \in users :
              /\ Property(IdentityOf(c), ID) = JsNumber(u.id)
              /\ Property(IdentityOf(c), USERNAME) = JsString(u.username))
  /\ [][/\ users \subseteq users'
        /\ users' /= users =>
             /\ last'.req.route = "POST /register"
             /\ last'.res.status = 302
             /\ Cardinality(users' \ users) = 1
             /\ \A u \in users' \ users : u.username = last'.req.username.value
       ]_vars

\* After a registration one client holds the cookie of the new user and
\* another has just logged in as the user of the migration.
C17_Witness ==
  /\ last.req.route = "POST /login"
  /\ last.res.status = 302
  /\ Cardinality(users) = 2
  /\ Uid(IdentityOf(last.client)) = 1
  /\ \E c \in Clients : cookies[c].present /\ Uid(IdentityOf(c)) = 2

\* ------------------------------------------------------------------------
\* Ownership of a task
\* ------------------------------------------------------------------------

\* C18: no step changes the user_id or the due value of a task that stays
\* in the table under its id, and the user_id of every task is the id of
\* the identity that added it (none for the anonymous identity; user 1 for
\* the tasks of the migration).
C18_OwnershipImmutable ==
  /\ [](\A t \in tasks : t.user_id = creator[t.id])
  /\ [][\A t \in tasks :
          \A n \in tasks' :
            n.id = t.id => n.user_id = t.user_id /\ n.due = t.due
       ]_vars

\* Two PUTs to one task are in flight together, the owner's and an
\* anonymous client's: the task has the owner's fields and its user_id.
C18_Witness ==
  \E t \in tasks :
    /\ pending["c1"].req.route = "PUT /tasks/:task_id"
    /\ pending["c2"].req.route = "PUT /tasks/:task_id"
    /\ pending["c1"].req.task_id = t.id
    /\ pending["c2"].req.task_id = t.id
    /\ pending["c1"].uid = t.user_id
    /\ pending["c2"].uid = NULL
    /\ pending["c2"].res.status = 302
    /\ t.user_id /= NULL
    /\ FieldsOf(t) = pending["c1"].req.body
    /\ FieldsOf(t) /= pending["c2"].req.body
    /\ FieldsOf(t) /= BodyA

====
